---- MODULE Spec2Model ----
(***************************************************************************)
(* Rubber's plugin registry (class Plugins) and rule-based source          *)
(* converter (class Converter) of src/src/util.py, as a state machine.     *)
(*                                                                         *)
(* File names are pairs <<base, extension>>.  A target pattern is known by *)
(* its regular-expression text, a source template by its template text;    *)
(* Match and Expand give what re.match and m.expand compute on the file    *)
(* names of the model.                                                     *)
(***************************************************************************)
EXTENDS Integers, Sequences, FiniteSets, TLC

VARIABLES
    modules,    \* Plugins.modules: plugin name -> the module object loaded
    hasPath,    \* Plugins.path is a non-empty search path
    rules,      \* Converter.rules: compiled pattern -> template -> list of <<weight, plugin>>
    initial,    \* the mapping handed to Converter.__init__
    files,      \* the file names for which os.path.exists is true
    avail,      \* plugin name -> the places where imp.find_module finds it
    broken,     \* the plugins whose imp.load_module raises
    accepts,    \* the plugins whose convert returns a node (the others return None)
    regen,      \* how often the cache of compiled patterns of module re was emptied
    adds,       \* the number of add_rule calls made
    last        \* the call made last, its arguments, its result and what it called

vars == <<modules, hasPath, rules, initial, files, avail, broken, accepts, regen, adds, last>>

-----------------------------------------------------------------------------
(* Bounds *)

MaxAdds == 1
MaxPurge == 1

-----------------------------------------------------------------------------
(* The universe of the model *)

Mods == {"A", "B"}
Weights == {10, 20}
Locs == {"local", "path"}

Names == {<<"doc", "dvi">>, <<"doc", "pdf">>, <<"doc", "tex">>}

PatPdf == "(.*)[.]pdf$"
PatDvi == "(.*)[.]dvi$"
PatAny == "(.*)[.].*$"
PatternTexts == {PatPdf, PatDvi, PatAny}

TmplDvi == "\\1.dvi"
TmplTex == "\\1.tex"
Templates == {TmplDvi, TmplTex}

NoMatch == "None"

\* dest.match(name): the text captured by group 1, or None.
Match(text, name) ==
    CASE text = PatPdf -> IF name[2] = "pdf" THEN name[1] ELSE NoMatch
      [] text = PatDvi -> IF name[2] = "dvi" THEN name[1] ELSE NoMatch
      [] OTHER         -> name[1]

\* m.expand(src): the template with \1 replaced by group 1.
Expand(src, m) ==
    IF src = TmplDvi THEN <<m, "dvi">> ELSE <<m, "tex">>

\* The order of Python's string comparison on the strings of the model.
Rank(s) ==
    CASE s = "A" -> 1 [] s = "B" -> 2
      [] s = "doc" -> 1
      [] s = "dvi" -> 1 [] s = "pdf" -> 2 [] s = "tex" -> 3

NameLess(a, b) ==
    \/ Rank(a[1]) < Rank(b[1])
    \/ a[1] = b[1] /\ Rank(a[2]) < Rank(b[2])

\* re.compile(text): module re caches compiled patterns by text, and empties
\* the cache when it is full; a pattern compiled after that is a new object.
Compile(text) == [text |-> text, gen |-> regen]

Perms(S) == {s \in [1..Cardinality(S) -> S] : \A x \in S : \E i \in DOMAIN s : s[i] = x}

Empty == [x \in {} |-> x]

-----------------------------------------------------------------------------
(* Plugins *)

\* register without lines 179-180: a module in the table is searched for and
\* loaded again.
registerNoCheck(mods, name) ==
    LET others == [n \in DOMAIN mods \ {name} |-> mods[n]] IN
    IF "local" \in avail[name]
    THEN [ret |-> 1, raised |-> FALSE, modules |-> others @@ (name :> "local"),
          searched |-> <<"local">>, loaded |-> TRUE]
    ELSE IF hasPath /\ "path" \in avail[name]
    THEN [ret |-> 1, raised |-> FALSE, modules |-> others @@ (name :> "path"),
          searched |-> <<"local", "path">>, loaded |-> TRUE]
    ELSE [ret |-> 0, raised |-> FALSE, modules |-> mods,
          searched |-> IF hasPath THEN <<"local", "path">> ELSE <<"local">>,
          loaded |-> FALSE]

\* register with the two searches exchanged: self.path first.
registerPathFirst(mods, name) ==
    IF name \in DOMAIN mods
    THEN [ret |-> 2, raised |-> FALSE, modules |-> mods, searched |-> <<>>, loaded |-> FALSE]
    ELSE IF hasPath /\ "path" \in avail[name]
    THEN [ret |-> 1, raised |-> FALSE, modules |-> mods @@ (name :> "path"),
          searched |-> <<"path">>, loaded |-> TRUE]
    ELSE IF "local" \in avail[name]
    THEN [ret |-> 1, raised |-> FALSE, modules |-> mods @@ (name :> "local"),
          searched |-> IF hasPath THEN <<"path", "local">> ELSE <<"local">>,
          loaded |-> TRUE]
    ELSE [ret |-> 0, raised |-> FALSE, modules |-> mods,
          searched |-> IF hasPath THEN <<"path", "local">> ELSE <<"local">>,
          loaded |-> FALSE]

\* Plugins.register, on the module table mods: the value returned (0, 1, 2),
\* whether an exception left the call, the table afterwards, the places
\* searched and whether imp.load_module ran.
register(mods, name) ==
    LET load(loc, searched) ==
            IF name \in broken
            THEN [ret |-> 0, raised |-> TRUE, modules |-> mods,
                  searched |-> searched, loaded |-> TRUE]
            ELSE [ret |-> 1, raised |-> FALSE, modules |-> mods @@ (name :> loc),
                  searched |-> searched, loaded |-> TRUE]
        notFound(searched) ==
            [ret |-> 0, raised |-> FALSE, modules |-> mods,
             searched |-> searched, loaded |-> FALSE]
    IN  IF name \in DOMAIN mods
        THEN [ret |-> 2, raised |-> FALSE, modules |-> mods,
              searched |-> <<>>, loaded |-> FALSE]
        ELSE IF "local" \in avail[name] THEN load("local", <<"local">>)
        ELSE IF ~hasPath THEN notFound(<<"local">>)
        ELSE IF "path" \in avail[name] THEN load("path", <<"local", "path">>)
        ELSE notFound(<<"local", "path">>)

Register(name) ==
    LET r == register(modules, name) IN
    /\ modules' = r.modules
    /\ last' = [op |-> "register", name |-> name, ret |-> r.ret, raised |-> r.raised,
                searched |-> r.searched, loaded |-> r.loaded, before |-> modules]
    /\ UNCHANGED <<hasPath, rules, initial, files, avail, broken, accepts, regen, adds>>

\* Plugins.__getitem__
Lookup(name) ==
    /\ last' = [op |-> "lookup", name |-> name,
                raised |-> name \notin DOMAIN modules,
                module |-> IF name \in DOMAIN modules THEN modules[name] ELSE "KeyError"]
    /\ UNCHANGED <<modules, hasPath, rules, initial, files, avail, broken, accepts, regen, adds>>

\* A clear that leaves the module table as it is.
ClearNothing ==
    /\ modules' = modules
    /\ last' = [op |-> "clear", before |-> modules]
    /\ UNCHANGED <<hasPath, rules, initial, files, avail, broken, accepts, regen, adds>>

\* Plugins.clear
Clear ==
    /\ modules' = Empty
    /\ last' = [op |-> "clear", before |-> modules]
    /\ UNCHANGED <<hasPath, rules, initial, files, avail, broken, accepts, regen, adds>>

-----------------------------------------------------------------------------
(* Converter *)

\* The mapping the model hands to Converter.__init__.
GivenRules ==
    (PatPdf :> ((TmplDvi :> << <<10, "A">> >>) @@ (TmplTex :> << <<20, "B">> >>)))
    @@ (PatDvi :> (TmplTex :> << <<20, "A">> >>))

\* Converter.__init__: every key compiled, every value stored as it is (the
\* inner dictionaries are the caller's own objects, not copies).
ConverterInit(given) ==
    [k \in {[text |-> t, gen |-> 0] : t \in DOMAIN given} |-> given[k.text]]

\* The key of self.rules whose inner dictionary is the one of the mapping
\* handed to the constructor.
Shared(e) == e.gen = 0 /\ e.text \in DOMAIN initial

\* The rule mapping of another Converter made from the same mapping: its keys
\* are the compiled keys of the mapping and its values are the very inner
\* dictionaries of the mapping, as they are now.
OtherRules == ConverterInit(initial)

\* add_rule putting the new couple at the end of an existing list.
AddRuleAtEnd(target, source, weight, module) ==
    /\ adds < MaxAdds
    /\ LET e == Compile(target)
           rules1 == IF e \notin DOMAIN rules THEN rules @@ (e :> Empty) ELSE rules
           dict == rules1[e]
           dict1 == IF source \in DOMAIN dict
                    THEN [dict EXCEPT ![source] = @ \o <<<<weight, module>>>>]
                    ELSE dict @@ (source :> <<<<weight, module>>>>)
       IN  /\ rules' = [rules1 EXCEPT ![e] = dict1]
           /\ initial' = IF Shared(e) THEN [initial EXCEPT ![e.text] = dict1] ELSE initial
           /\ last' = [op |-> "add_rule", key |-> e, source |-> source,
                       weight |-> weight, module |-> module,
                       existed |-> e \in DOMAIN rules /\ source \in DOMAIN dict,
                       before |-> rules]
    /\ adds' = adds + 1
    /\ UNCHANGED <<modules, hasPath, files, avail, broken, accepts, regen>>

\* Converter.add_rule
AddRule(target, source, weight, module) ==
    /\ adds < MaxAdds
    /\ LET e == Compile(target)
           rules1 == IF e \notin DOMAIN rules THEN rules @@ (e :> Empty) ELSE rules
           dict == rules1[e]
           dict1 == IF source \in DOMAIN dict
                    THEN [dict EXCEPT ![source] = <<<<weight, module>>>> \o @]
                    ELSE dict @@ (source :> <<<<weight, module>>>>)
       IN  /\ rules' = [rules1 EXCEPT ![e] = dict1]
           /\ initial' = IF Shared(e) THEN [initial EXCEPT ![e.text] = dict1] ELSE initial
           /\ last' = [op |-> "add_rule", key |-> e, source |-> source,
                       weight |-> weight, module |-> module,
                       existed |-> e \in DOMAIN rules /\ source \in DOMAIN dict,
                       before |-> rules]
    /\ adds' = adds + 1
    /\ UNCHANGED <<modules, hasPath, files, avail, broken, accepts, regen>>

\* exists that finds every file.
existsAlways(name) == TRUE

\* os.path.exists
exists(name) == name \in files

\* Converter.may_produce, with the keys of self.rules enumerated in the
\* order keys (position i onwards).
RECURSIVE may_produce_from(_, _, _)
may_produce_from(keys, i, name) ==
    IF i > Len(keys) THEN 0
    ELSE IF Match(keys[i].text, name) # NoMatch THEN 1
    ELSE may_produce_from(keys, i + 1, name)

\* may_produce that returns 0 as soon as a key does not match.
may_produce_first(keys, name) ==
    IF keys # <<>> /\ Match(keys[1].text, name) # NoMatch THEN 1 ELSE 0

may_produce(keys, name) == may_produce_from(keys, 1, name)

MayProduce(name) ==
    /\ \E ret \in {may_produce(keys, name) : keys \in Perms(DOMAIN rules)} :
           last' = [op |-> "may_produce", name |-> name, ret |-> ret]
    /\ UNCHANGED <<modules, hasPath, rules, initial, files, avail, broken, accepts, regen, adds>>

\* What the calls of Converter.__call__ return or raise.
NoneNone == [kind |-> "none"]
Pair(weight, dep) == [kind |-> "pair", weight |-> weight, node |-> dep]
Raise(exc) == [kind |-> "raise", exc |-> exc]

\* DependLeaf(env, target) at line 280: util.py neither defines nor imports
\* the name DependLeaf, so evaluating it raises NameError.
DependLeaf(target) == Raise("NameError")

\* Python's order on the tuples (weight, source, target, mod).
TupleLess(a, b) ==
    \/ a[1] < b[1]
    \/ a[1] = b[1] /\ NameLess(a[2], b[2])
    \/ a[1] = b[1] /\ a[2] = b[2] /\ NameLess(a[3], b[3])
    \/ a[1] = b[1] /\ a[2] = b[2] /\ a[3] = b[3] /\ Rank(a[4]) < Rank(b[4])

\* list.sort() is stable: x goes before the first element that is not less than it
\* when the elements after it are sorted already.
RECURSIVE InsertSorted(_, _)
InsertSorted(x, s) ==
    IF s = <<>> THEN <<x>>
    ELSE IF ~TupleLess(Head(s), x) THEN <<x>> \o s
    ELSE <<Head(s)>> \o InsertSorted(x, Tail(s))

RECURSIVE SortTuples(_)
SortTuples(s) == IF s = <<>> THEN <<>> ELSE InsertSorted(Head(s), SortTuples(Tail(s)))

\* A sort that compares the weights only and keeps the order of encounter
\* among equal weights.
RECURSIVE InsertByWeight(_, _)
InsertByWeight(x, s) ==
    IF s = <<>> THEN <<x>>
    ELSE IF x[1] <= Head(s)[1] THEN <<x>> \o s
    ELSE <<Head(s)>> \o InsertByWeight(x, Tail(s))

RECURSIVE SortByWeight(_)
SortByWeight(s) == IF s = <<>> THEN <<>> ELSE InsertByWeight(Head(s), SortByWeight(Tail(s)))

sortByWeight(conv) == SortByWeight(conv)

\* No sort at all: conv in the order of encounter.
sortNone(conv) == conv

\* A sort in descending order.
RECURSIVE Reverse(_)
Reverse(s) == IF s = <<>> THEN <<>> ELSE Reverse(Tail(s)) \o <<Head(s)>>

sortDescending(conv) == Reverse(SortTuples(conv))

\* conv.sort()
sort(conv) == SortTuples(conv)

\* Lines 281-284: one register call for each (weight, mod) of mods, the list
\* of template src under key dest, from position i on; st is the state of the
\* call (the module table, conv, the register calls made, and whether the
\* call still runs).
RECURSIVE RegisterMods(_, _, _, _, _, _, _)
RegisterMods(st, dest, src, mods, i, source, target) ==
    IF i > Len(mods) \/ st.status # "run" THEN st
    ELSE LET weight == mods[i][1]
             mod == mods[i][2]
             r == register(st.modules, mod)
             st1 == [st EXCEPT
                        !.modules = r.modules,
                        !.regs = Append(@, [key |-> dest, src |-> src, pos |-> i,
                                              weight |-> weight, mod |-> mod,
                                              ret |-> r.ret]),
                        !.status = IF r.raised THEN "raise" ELSE "run",
                        !.result = IF r.raised THEN Raise("load") ELSE @,
                        !.conv = IF ~r.raised /\ r.ret # 0
                                 THEN Append(@, <<weight, source, target, mod>>)
                                 ELSE @]
         IN  RegisterMods(st1, dest, src, mods, i + 1, source, target)

\* Lines 271-284 for the key dest (matching with group m), its templates
\* enumerated in the order srcs, from position j on.
RECURSIVE Sources(_, _, _, _, _, _, _, _)
Sources(st, dest, m, srcs, j, target, safe, keys) ==
    IF j > Len(srcs) \/ st.status # "run" THEN st
    ELSE LET src == srcs[j]
             source == Expand(src, m)
         IN  IF ~exists(source)
             THEN Sources(st, dest, m, srcs, j + 1, target, safe, keys)
             ELSE IF safe /\ exists(target) /\ may_produce(keys, source) = 1
             THEN [st EXCEPT !.status = "return", !.result = DependLeaf(target)]
             ELSE Sources(RegisterMods(st, dest, src, rules[dest][src], 1, source, target),
                          dest, m, srcs, j + 1, target, safe, keys)

\* Lines 271-284: the keys enumerated in the order keys, from position i on;
\* tord gives the order in which each inner dictionary is enumerated.
RECURSIVE Gather(_, _, _, _, _, _)
Gather(st, keys, i, tord, target, safe) ==
    IF i > Len(keys) \/ st.status # "run" THEN st
    ELSE LET dest == keys[i]
             m == Match(dest.text, target)
         IN  IF m = NoMatch
             THEN Gather(st, keys, i + 1, tord, target, safe)
             ELSE Gather(Sources(st, dest, m, tord[dest], 1, target, safe, keys),
                         keys, i + 1, tord, target, safe)

\* The loop of lines 287-292 leaving at the first plugin that declines.
ConvertFirstOnly(mods, conv, i, calls) ==
    IF i > Len(conv) THEN [result |-> NoneNone, convs |-> calls]
    ELSE IF conv[i][4] \in accepts
    THEN [result |-> Pair(conv[i][1], [by |-> conv[i][4], module |-> mods[conv[i][4]],
                                       source |-> conv[i][2], target |-> conv[i][3]]),
          convs |-> Append(calls, conv[i])]
    ELSE [result |-> NoneNone, convs |-> Append(calls, conv[i])]

\* Lines 287-292 from position i of the sorted conv on: the convert calls made
\* and the value returned.
RECURSIVE Convert(_, _, _, _)
Convert(mods, conv, i, calls) ==
    IF i > Len(conv) THEN [result |-> NoneNone, convs |-> calls]
    ELSE LET weight == conv[i][1]
             source == conv[i][2]
             target == conv[i][3]
             mod == conv[i][4]
         IN  IF mod \notin DOMAIN mods
             THEN [result |-> Raise("KeyError"), convs |-> calls]
             ELSE IF mod \in accepts
             THEN [result |-> Pair(weight, [by |-> mod, module |-> mods[mod],
                                            source |-> source, target |-> target]),
                   convs |-> Append(calls, conv[i])]
             ELSE Convert(mods, conv, i + 1, Append(calls, conv[i]))

\* Converter.__call__ with the dictionaries enumerated in the orders keys and tord.
call(target, safe, keys, tord) ==
    LET st0 == [modules |-> modules, conv |-> <<>>, regs |-> <<>>,
                status |-> "run", result |-> NoneNone]
        st == Gather(st0, keys, 1, tord, target, safe)
        c == Convert(st.modules, sort(st.conv), 1, <<>>)
    IN  IF st.status # "run"
        THEN [result |-> st.result, modules |-> st.modules, regs |-> st.regs, convs |-> <<>>]
        ELSE [result |-> c.result, modules |-> st.modules, regs |-> st.regs, convs |-> c.convs]

\* The keys of self.rules that match name.
Matching(name) == {k \in DOMAIN rules : Match(k.text, name) # NoMatch}

\* The orders in which self.rules may be enumerated in a call for target.
\* The loop skips a key that does not match, so two enumerations that differ
\* only in where those keys stand make the same calls: one of each such class
\* is taken, with the keys that do not match at the end.
KeyOrders(target) ==
    LET rest == CHOOSE s \in Perms(DOMAIN rules \ Matching(target)) : TRUE
    IN  {m \o rest : m \in Perms(Matching(target))}

\* The orders in which the inner dictionaries of the keys that match target
\* may be enumerated.
TemplateSeqs == UNION {Perms(S) : S \in SUBSET Templates}
TemplateOrders(target) ==
    {f \in [Matching(target) -> TemplateSeqs] :
        \A k \in Matching(target) : f[k] \in Perms(DOMAIN rules[k])}

Resolve(target, safe) ==
    /\ \E r \in {call(target, safe, keys, tord) :
                    keys \in KeyOrders(target), tord \in TemplateOrders(target)} :
           /\ modules' = r.modules
           /\ last' = [op |-> "resolve", target |-> target, safe |-> safe,
                       result |-> r.result, regs |-> r.regs, convs |-> r.convs,
                       before |-> modules]
    /\ UNCHANGED <<hasPath, rules, initial, files, avail, broken, accepts, regen, adds>>

-----------------------------------------------------------------------------
(* The environment *)

\* A file is created or removed.
Touch(name) ==
    /\ files' = IF name \in files THEN files \ {name} ELSE files \cup {name}
    /\ last' = [op |-> "touch", name |-> name]
    /\ UNCHANGED <<modules, hasPath, rules, initial, avail, broken, accepts, regen, adds>>

\* Module re empties its cache of compiled patterns (re._MAXCACHE patterns
\* were compiled by the program).
RePurge ==
    /\ regen < MaxPurge
    /\ regen' = regen + 1
    /\ last' = [op |-> "purge"]
    /\ UNCHANGED <<modules, hasPath, rules, initial, files, avail, broken, accepts, adds>>

-----------------------------------------------------------------------------
(* Specifications *)

InitCommon ==
    /\ modules = Empty
    /\ initial = GivenRules
    /\ rules = ConverterInit(initial)
    /\ files = {}
    /\ accepts \in SUBSET Mods
    /\ broken = {}
    /\ regen = 0
    /\ adds = 0
    /\ last = [op |-> "init"]

\* A session of the converter: a registry with a search path, each plugin
\* either installed on that path or not installed.
Init ==
    /\ InitCommon
    /\ hasPath = TRUE
    /\ avail \in [Mods -> {{}, {"path"}}]

Next ==
    \/ \E name \in Mods : Register(name)
    \/ \E name \in Mods : Lookup(name)
    \/ Clear
    \/ \E t \in PatternTexts, s \in Templates, w \in Weights, m \in Mods : AddRule(t, s, w, m)
    \/ \E name \in Names : MayProduce(name)
    \/ \E target \in Names, safe \in BOOLEAN : Resolve(target, safe)
    \/ \E name \in Names : Touch(name)

Spec == Init /\ [][Next]_vars

\* A session of the registry: with or without a search path, each plugin
\* installed in the current directory, on the path, in both or in neither;
\* the converter keeps the rules it was made with.
InitPlugins ==
    /\ InitCommon
    /\ hasPath \in BOOLEAN
    /\ avail \in [Mods -> SUBSET Locs]

NextPlugins ==
    \/ \E name \in Mods : Register(name)
    \/ \E name \in Mods : Lookup(name)
    \/ Clear
    \/ \E target \in Names, safe \in BOOLEAN : Resolve(target, safe)
    \/ \E name \in Names : Touch(name)

SpecPlugins == InitPlugins /\ [][NextPlugins]_vars

\* A session of the registry in which the file of a plugin may be one that
\* imp.load_module fails on (a syntax error, a failing import in its body).
InitLoad ==
    /\ modules = Empty
    /\ initial = GivenRules
    /\ rules = ConverterInit(initial)
    /\ files = {}
    /\ accepts \in SUBSET Mods
    /\ broken \in SUBSET Mods
    /\ regen = 0
    /\ adds = 0
    /\ last = [op |-> "init"]
    /\ hasPath = TRUE
    /\ avail \in [Mods -> {{}, {"path"}}]

SpecLoad == InitLoad /\ [][NextPlugins]_vars

\* A session of the converter in a program that compiles other regular
\* expressions too, so that module re may empty its cache of compiled
\* patterns between two calls of the converter.
InitRules ==
    /\ InitCommon
    /\ hasPath = TRUE
    /\ avail = [name \in Mods |-> {"path"}]

NextRules ==
    \/ \E t \in PatternTexts, s \in Templates, w \in Weights, m \in Mods : AddRule(t, s, w, m)
    \/ RePurge
    \/ \E name \in Names : MayProduce(name)
    \/ \E target \in Names, safe \in BOOLEAN : Resolve(target, safe)
    \/ \E name \in Names : Touch(name)

SpecRules == InitRules /\ [][NextRules]_vars

-----------------------------------------------------------------------------
(* Properties *)

ResolveDone == last.op = "resolve"

\* The entries registered for the target of the call made last: the entry at
\* position pos of the list of template src under key, with the source file
\* the template expands to.
Entries ==
    UNION {UNION {{[key |-> k, src |-> t, pos |-> i, weight |-> rules[k][t][i][1],
                    mod |-> rules[k][t][i][2],
                    source |-> Expand(t, Match(k.text, last.target))] :
                        i \in 1..Len(rules[k][t])} :
                     t \in DOMAIN rules[k]} :
              k \in Matching(last.target)}

\* The plugin could be registered when the call made last began.
Registrable(mod) ==
    \/ mod \in DOMAIN last.before
    \/ mod \notin broken /\ ("local" \in avail[mod] \/ (hasPath /\ "path" \in avail[mod]))

Viable(e) == e.source \in files /\ Registrable(e.mod)

Tuple(e) == <<e.weight, e.source, last.target, e.mod>>

\* The node that the plugin of entry e makes, from the module loaded for it.
NodeOf(e) == [by |-> e.mod,
              module |-> IF e.mod \in DOMAIN modules THEN modules[e.mod] ELSE "unloaded",
              source |-> e.source, target |-> last.target]

\* convert was called for the tuple c, and for b before that.
CalledAt(c, q) == q \in DOMAIN last.convs /\ last.convs[q] = c
Called(c) == \E q \in DOMAIN last.convs : CalledAt(c, q)
CalledBefore(b, c) ==
    \A q \in DOMAIN last.convs :
        CalledAt(c, q) => \E p \in 1..(q - 1) : CalledAt(b, p)

\* C1: weight monotonicity.  For two viable candidates of a resolve call (the
\* source exists, the plugin registers) with weights w1 < w2, convert is
\* called for the w2 candidate only after it was called for the w1 candidate,
\* and when the w1 candidate's plugin returns a node the call does not
\* return the w2 candidate's node.
C1_WeightMonotonic ==
    ResolveDone =>
        \A e1, e2 \in Entries :
            (Viable(e1) /\ Viable(e2) /\ e1.weight < e2.weight) =>
                /\ CalledBefore(Tuple(e1), Tuple(e2))
                /\ e1.mod \in accepts => last.result # Pair(e2.weight, NodeOf(e2))

\* Two viable candidates of different weights whose plugins both accept; the
\* call returned the node of the lighter one.
C1_Witness ==
    /\ ResolveDone
    /\ \E e1, e2 \in Entries :
          /\ Viable(e1) /\ Viable(e2) /\ e1.weight < e2.weight
          /\ e1.mod \in accepts /\ e2.mod \in accepts
          /\ last.result = Pair(e1.weight, NodeOf(e1))

\* C2: a resolve call neither calls convert for, nor returns a node of, a
\* candidate whose source file does not exist when the call is made.
C2_SourceExists ==
    ResolveDone =>
        /\ \A q \in DOMAIN last.convs : last.convs[q][2] \in files
        /\ last.result.kind = "pair" => last.result.node.source \in files

\* A resolve call that called convert although another candidate, whose
\* plugin could be registered, has no source file.
C2_Witness ==
    /\ ResolveDone
    /\ last.convs # <<>>
    /\ \E e \in Entries : e.source \notin files /\ Registrable(e.mod)

C8_MayProduce ==
    last.op = "may_produce" =>
        (last.ret = 1 <=> \E k \in DOMAIN rules : Match(k.text, last.name) # NoMatch)

\* may_produce returned true for a file that does not exist and that only a
\* pattern added by add_rule matches.
C8_Witness ==
    /\ last.op = "may_produce"
    /\ last.ret = 1
    /\ adds > 0
    /\ last.name \notin files
    /\ \A k \in DOMAIN rules :
           Match(k.text, last.name) # NoMatch => k.text \notin DOMAIN GivenRules

\* C3: determinism.  Two resolve calls with the same target and safe flag,
\* with no change of the rules, the files or the plugins between them, return
\* the same result, whatever the orders in which the two calls enumerate the
\* rule mapping and whether the plugins are loaded by the call or were in
\* the registry already.
C3_Deterministic ==
    [][(/\ last.op = "resolve"
        /\ last'.op = "resolve"
        /\ last'.target = last.target
        /\ last'.safe = last.safe) => last'.result = last.result]_vars

\* A resolve call that found every plugin it registered loaded already, for a
\* target that several keys match, and returned a node.
C3_Witness ==
    /\ ResolveDone
    /\ Cardinality(Matching(last.target)) >= 2
    /\ last.regs # <<>>
    /\ \A q \in DOMAIN last.regs : last.regs[q].ret = 2
    /\ last.result.kind = "pair"

\* A leaf node for target, as the specification describes it.
Leaf(target) == [kind |-> "leaf", target |-> target]

\* Some candidate source of the target of the call made last exists and
\* matches a registered pattern.
ProducibleSource ==
    \E e \in Entries : e.source \in files /\ Matching(e.source) # {}

Given(k, t) ==
    IF k.gen = 0 /\ k.text \in DOMAIN GivenRules /\ t \in DOMAIN GivenRules[k.text]
    THEN GivenRules[k.text][t]
    ELSE <<>>

\* Entry e was put in its list by add_rule.
Added(e) == e.pos <= Len(rules[e.key][e.src]) - Len(Given(e.key, e.src))

\* The entries that the list of e held already when e was added to it.
Older(e) == {d \in Entries : d.key = e.key /\ d.src = e.src /\ d.pos > e.pos}

\* Each register call made for entry d came after one made for entry e.
RegisteredBefore(e, d) ==
    LET for(x, q) == /\ last.regs[q].key = x.key /\ last.regs[q].src = x.src
                     /\ last.regs[q].pos = x.pos
    IN  \A q \in DOMAIN last.regs :
            for(d, q) => \E p \in 1..(q - 1) : for(e, p)

\* C6: override priority.  An entry added by add_rule to a pair (pattern,
\* template) that held entries already, with a weight lower than theirs, is
\* attempted before them in every later resolve call: its plugin is
\* registered before theirs and, once registered, its convert is called
\* before theirs.
C6_Override ==
    ResolveDone =>
        \A e \in Entries :
            (Added(e) /\ \A d \in Older(e) : e.weight < d.weight) =>
                \A d \in Older(e) :
                    /\ RegisteredBefore(e, d)
                    /\ Registrable(e.mod) => CalledBefore(Tuple(e), Tuple(d))

\* convert was called for an added entry of lower weight, which declined,
\* and then for an entry its pair held before.
C6_Witness ==
    /\ ResolveDone
    /\ \E e \in Entries :
          /\ Added(e)
          /\ \E d \in Older(e) :
                /\ e.weight < d.weight
                /\ \E p, q \in DOMAIN last.convs :
                      p < q /\ CalledAt(Tuple(e), p) /\ CalledAt(Tuple(d), q)

\* C7: tie-breaking.  Among the entries of one pair (pattern, template), one
\* added by add_rule is attempted before an entry of the same weight that the
\* pair held before, whatever the plugin names.
C7_TieBreak ==
    ResolveDone =>
        \A e \in Entries :
            Added(e) =>
                \A d \in Older(e) :
                    (d.weight = e.weight /\ d.mod # e.mod /\ Registrable(e.mod)) =>
                        CalledBefore(Tuple(e), Tuple(d))

\* C9: of two register calls in a row for one name, the first returning 1
\* (loaded), the second returns 2 (already loaded), leaves the module table
\* as it is and loads nothing: the module was loaded once, by the first.
C9_Idempotent ==
    [][(/\ last.op = "register"
        /\ last.ret = 1
        /\ last'.op = "register"
        /\ last'.name = last.name) =>
            /\ last'.ret = 2
            /\ last.loaded /\ ~last'.loaded
            /\ last'.searched = <<>>
            /\ modules' = modules]_vars

\* A register call that found the module in the table, loaded by an earlier
\* call from the search path.
C9_Witness ==
    /\ last.op = "register"
    /\ last.ret = 2
    /\ ~last.loaded
    /\ last.name \in DOMAIN modules
    /\ modules = last.before

\* C10: the result of register(name).  With name in the module table: 2, no
\* search, no load.  Otherwise the current directory is searched first, and
\* the search path after it exactly when the first search fails and a path
\* is set; if neither finds the module: 0 and the table unchanged; else the
\* module found first is loaded, stored under name, and 1 is returned.
C10_RegisterResult ==
    last.op = "register" =>
        LET name == last.name
            here == "local" \in avail[name]
            there == hasPath /\ "path" \in avail[name]
        IN  IF name \in DOMAIN last.before
            THEN /\ last.ret = 2
                 /\ last.searched = <<>>
                 /\ ~last.loaded
                 /\ modules = last.before
            ELSE /\ last.searched \in {<<"local">>, <<"local", "path">>}
                 /\ Len(last.searched) = 2 <=> (~here /\ hasPath)
                 /\ (~here /\ ~there) => /\ last.ret = 0
                                         /\ ~last.loaded
                                         /\ modules = last.before
                 /\ (here \/ there) =>
                        /\ last.ret = 1
                        /\ last.loaded
                        /\ modules = last.before @@
                                     (name :> IF here THEN "local" ELSE "path")

\* register loaded, from the current directory, a module that is on the
\* search path too.
C10_Witness ==
    /\ last.op = "register"
    /\ last.ret = 1
    /\ hasPath
    /\ avail[last.name] = Locs
    /\ modules[last.name] = "local"
    /\ last.searched = <<"local">>

\* The module can be found and loaded: it is in the current directory or on
\* the search path, and loading it does not fail.
Locatable(name) ==
    name \notin broken /\ ("local" \in avail[name] \/ (hasPath /\ "path" \in avail[name]))

\* C11: clear() empties the module table and leaves the search path as it
\* is.  Right after clear(), the lookup of a name that was loaded raises
\* KeyError, and register of such a name that can still be found searches
\* again, loads the module and returns 1, not 2.
C11_ClearEmpties ==
    [][/\ last'.op = "clear" =>
             /\ modules' = Empty
             /\ hasPath' = hasPath
             /\ last'.before = modules
       /\ (last.op = "clear" /\ last'.op = "lookup" /\ last'.name \in DOMAIN last.before) =>
             last'.raised
       /\ (/\ last.op = "clear"
           /\ last'.op = "register"
           /\ last'.name \in DOMAIN last.before
           /\ Locatable(last'.name)) =>
             /\ last'.ret = 1
             /\ last'.searched # <<>>
             /\ last'.loaded
             /\ last'.name \in DOMAIN modules']_vars

\* clear() was called on a table that held both plugins, one loaded from
\* the search path, and the table is empty now.
C11_Witness ==
    /\ last.op = "clear"
    /\ DOMAIN last.before = Mods
    /\ \E n \in Mods : last.before[n] = "path"
    /\ hasPath
    /\ modules = Empty

\* C12: resolve does not raise when no pattern matches, no source exists, a
\* plugin cannot be found, a plugin declines or the safe-mode short-circuit
\* is taken: the call returns a value, and every self.plugins[mod] it
\* evaluates before a convert call finds the module in the table.
C12_NeverRaises ==
    ResolveDone =>
        /\ last.result.kind # "raise"
        /\ \A q \in DOMAIN last.convs : last.convs[q][4] \in DOMAIN modules

\* C13: the value returned by resolve is a pair on every return path, the
\* safe-mode short-circuit included: (weight, node) with a node that is not
\* None, or (None, None).
C13_ReturnsPair ==
    ResolveDone =>
        \/ last.result = NoneNone
        \/ /\ last.result.kind = "pair"
           /\ last.result.weight \in Weights
           /\ last.result.node.by \in accepts

\* C14: a load failure in register is treated as not found.  When register
\* finds the file of a module and loading it fails, register returns 0 with
\* the module table unchanged and raises nothing; a resolve call that needed
\* that plugin goes on with the other candidates and raises nothing.
C14_LoadFailureNotFound ==
    /\ (last.op = "register" /\ last.name \in broken /\ last.loaded) =>
           /\ ~last.raised
           /\ last.ret = 0
           /\ modules = last.before
    /\ (ResolveDone /\ \E q \in DOMAIN last.regs : last.regs[q].mod \in broken) =>
           last.result # Raise("load")

\* The number of times the call recorded in l loaded the module name.
LoadsOf(l, name) ==
    IF l.op = "register" THEN (IF l.name = name /\ l.loaded THEN 1 ELSE 0)
    ELSE IF l.op = "resolve"
    THEN Cardinality({q \in DOMAIN l.regs : l.regs[q].mod = name /\ l.regs[q].ret = 1})
    ELSE 0

\* C15: load at most once.  Over any sequence of register, lookup, clear and
\* resolve calls the module of a name is loaded at most once: an operation
\* does not load a name that was loaded before (the name is in the module
\* table, or clear() has just removed it from the table), and loads no name
\* twice.
C15_LoadOnce ==
    [][\A name \in Mods :
          /\ LoadsOf(last', name) <= 1
          /\ (\/ name \in DOMAIN modules
              \/ last.op = "clear" /\ name \in DOMAIN last.before) =>
                 LoadsOf(last', name) = 0]_vars

\* C15 as amended: while a name stays in the module table its module is not
\* loaded again, and one register or resolve call loads no name twice.
C15_LoadOnceWhileCached ==
    [][\A name \in Mods :
          /\ LoadsOf(last', name) <= 1
          /\ name \in DOMAIN modules => LoadsOf(last', name) = 0]_vars

\* A resolve call that registered both plugins, found both in the table and
\* loaded nothing.
C15_Witness ==
    /\ ResolveDone
    /\ Len(last.regs) = 2
    /\ \A name \in Mods : LoadsOf(last, name) = 0
    /\ DOMAIN last.before = Mods
    /\ modules = last.before

\* C16: pattern-key uniqueness.  The rule mapping never holds two keys with
\* the same pattern text, and add_rule called with the text of an existing
\* key (of the constructor's mapping or of an earlier add_rule) adds its
\* entry under that key and makes no second key.
C16_KeyUnique ==
    /\ \A k1, k2 \in DOMAIN rules : k1.text = k2.text => k1 = k2
    /\ last.op = "add_rule" =>
          ((\E k \in DOMAIN last.before : k.text = last.key.text) =>
               /\ last.key \in DOMAIN last.before
               /\ DOMAIN rules = DOMAIN last.before)

\* The list that the rule mapping r holds for template t under key k; empty
\* when it holds none.
ListOf(r, k, t) ==
    IF k \in DOMAIN r /\ t \in DOMAIN r[k] THEN r[k][t] ELSE <<>>

C19_OwnsRules ==
    /\ initial = GivenRules
    /\ OtherRules = ConverterInit(GivenRules)

\* The call made last left through the safe-mode return of line 280.
ShortCircuit == ResolveDone /\ last.safe /\ last.result = DependLeaf(last.target)

\* C20: a resolve call that takes the safe-mode short-circuit has attempted
\* no plugin registration: it made no register call and the module table is
\* the same after the call as before it, whatever the order of enumeration
\* and whatever other candidates the target has.
C20_NoRegistration ==
    ShortCircuit =>
        /\ last.regs = <<>>
        /\ modules = last.before

\* C20 as amended: a resolve call that takes the safe-mode short-circuit has
\* called no convert.  The register calls it made are for entries of sources
\* that exist and match no pattern (those enumerated before the source that
\* stopped the call); the module table holds what it held before the call
\* and, besides, only modules loaded by those register calls.
C20_NoConvert ==
    ShortCircuit =>
        /\ last.convs = <<>>
        /\ \A q \in DOMAIN last.regs :
              LET r == last.regs[q]
                  source == Expand(r.src, Match(r.key.text, last.target))
              IN  /\ r.key \in Matching(last.target)
                  /\ source \in files
                  /\ Matching(source) = {}
        /\ \A name \in DOMAIN last.before :
              name \in DOMAIN modules /\ modules[name] = last.before[name]
        /\ \A name \in DOMAIN modules \ DOMAIN last.before :
              \E q \in DOMAIN last.regs : last.regs[q].mod = name /\ last.regs[q].ret = 1

\* A call that loaded a plugin for one source and then took the safe-mode
\* short-circuit at another.
C20_Witness ==
    /\ ShortCircuit
    /\ last.regs # <<>>
    /\ last.before = Empty
    /\ modules # Empty

====
